---- MODULE Spec2Model ----
(***************************************************************************)
(* Model of src/main.py: the per-user routing state machine of the         *)
(* Telegram/Flowise bridge (handle_telegram_message, wait_and_check,       *)
(* process_bot2_messages), the retrying backend client                     *)
(* (FlowiseBot.get_response) and the response sanitizer (clean_response).  *)
(*                                                                         *)
(* Texts are sequences of one-character strings.  The Cyrillic markers of  *)
(* the source are written in Latin letters, one letter per source letter:  *)
(*   "Спецзапрос" -> S p e c z a p r o s                                   *)
(*   "Уточнение"  -> U t o q n e n i e                                     *)
(*   "Ожидание"   -> O j i d a n i e                                       *)
(***************************************************************************)
EXTENDS Integers, Sequences, FiniteSets, TLC

VARIABLES
  now,        \* the clock read by time.time() and driving asyncio.sleep
  user_data,  \* main.py:22, the session map: user id -> session record
  handler,    \* one handle_telegram_message task per inbound message
  timer,      \* the wait_and_check task created by message m (main.py:115)
  nrouted,    \* history: how many classifications have been routed so far
  call,       \* one FlowiseBot.get_response call, attempt by attempt
  skew,       \* time.time() minus the event loop's clock: the wall clock can be set
  clean       \* one text put through clean_response, once and again

vars == <<now, user_data, handler, timer, nrouted, call, skew, clean>>

-----------------------------------------------------------------------------
(* Bounds of the model *)

MaxMsgs == 2
MaxInFlight == 2
MaxTime == 20
TickStep == 5
MaxCleanLen == 5
MaxSetBack == 1

Msgs == 1..MaxMsgs
Users == {101}

-----------------------------------------------------------------------------
(* Texts *)

ESCALATE_MARKER == <<"S","p","e","c","z","a","p","r","o","s">>
CLARIFY_MARKER == <<"U","t","o","q","n","e","n","i","e">>
WAIT_MARKER == <<"O","j","i","d","a","n","i","e">>

NO_TEXT_SENTINEL ==   \* "No response text in Flowise API response"
  <<"N","o"," ","r","e","s","p","o","n","s","e"," ","t","e","x","t"," ","i","n"," ","F","l","o","w","i","s","e"," ","A","P","I"," ","r","e","s","p","o","n","s","e">>

ERROR_SENTINEL ==   \* "Error occurred while contacting Flowise API."
  <<"E","r","r","o","r"," ","o","c","c","u","r","r","e","d"," ","w","h","i","l","e"," ","c","o","n","t","a","c","t","i","n","g"," ","F","l","o","w","i","s","e"," ","A","P","I",".">>

MAX_RETRIES_SENTINEL ==   \* "Maximum retries reached. Unable to contact Flowise API."
  <<"M","a","x","i","m","u","m"," ","r","e","t","r","i","e","s"," ","r","e","a","c","h","e","d","."," ","U","n","a","b","l","e"," ","t","o"," ","c","o","n","t","a","c","t"," ","F","l","o","w","i","s","e"," ","A","P","I",".">>

IsSpace(c) == c \in {" ", "\t", "\n", "\r"}

RECURSIVE lstrip(_)
lstrip(s) ==
  IF s = <<>> THEN s
  ELSE IF IsSpace(Head(s)) THEN lstrip(Tail(s)) ELSE s

RECURSIVE rstrip(_)
rstrip(s) ==
  IF s = <<>> THEN s
  ELSE IF IsSpace(s[Len(s)]) THEN rstrip(SubSeq(s, 1, Len(s) - 1)) ELSE s

strip(s) == rstrip(lstrip(s))

replace_with_empty(s, c) == SelectSeq(s, LAMBDA x : x # c)

RECURSIVE split(_, _)
split(s, sep) ==
  IF \A i \in 1..Len(s) : s[i] # sep THEN <<s>>
  ELSE LET i == CHOOSE j \in 1..Len(s) :
                  s[j] = sep /\ \A k \in 1..(j - 1) : s[k] # sep
       IN <<SubSeq(s, 1, i - 1)>> \o split(SubSeq(s, i + 1, Len(s)), sep)

RECURSIVE join(_, _)
join(sep, parts) ==
  IF parts = <<>> THEN <<>>
  ELSE IF Len(parts) = 1 THEN parts[1]
  ELSE parts[1] \o sep \o join(sep, Tail(parts))

\* clean_response without the per-line strip of main.py:81.
clean_response_lines_unstripped(text) ==
  strip(replace_with_empty(replace_with_empty(text, "#"), "*"))

\* The lines stripped first and the marks taken out after.
clean_response_strips_before_replace(text) ==
  LET lines == split(text, "\n")
      cleaned_text == join(<<"\n">>, [i \in 1..Len(lines) |-> strip(lines[i])])
  IN strip(replace_with_empty(replace_with_empty(cleaned_text, "#"), "*"))

clean_response(text) ==
  LET stripped == replace_with_empty(replace_with_empty(text, "#"), "*")
      lines == split(stripped, "\n")
      cleaned_text == join(<<"\n">>, [i \in 1..Len(lines) |-> strip(lines[i])])
  IN strip(cleaned_text)

Contains(sub, s) ==
  \E i \in 1..(Len(s) - Len(sub) + 1) : SubSeq(s, i, i + Len(sub) - 1) = sub

NoClean == [pc |-> "idle", text |-> <<>>, once |-> <<>>, twice |-> <<>>]

-----------------------------------------------------------------------------
(* FlowiseBot.get_response: the retrying backend client (main.py:31-64) *)

max_retries == 5
base_delay == 1

\* What one HTTP attempt (main.py:50-52) can come to:
\*   text    - 2xx, the body is a JSON object with a "text" field
\*   notext  - 2xx, the body is a JSON object without a "text" field
\*   fail    - requests.RequestException: transport failure or raise_for_status
\*   badbody - 2xx, the body is JSON but not an object (a list, a string):
\*             .get raises AttributeError, which is no RequestException
TextOutcome(t) == [kind |-> "text", text |-> t]
NoTextOutcome == [kind |-> "notext", text |-> <<>>]
FailOutcome == [kind |-> "fail", text |-> <<>>]
BadBodyOutcome == [kind |-> "badbody", text |-> <<>>]

Returned(t) == [do |-> "return", text |-> t]
Raised == [do |-> "raise", text |-> <<>>]
Retry == [do |-> "retry", text |-> <<>>]

\* The retry loop with the test of main.py:54 off by one: the last failure
\* is retried like the others.
Attempt_last_failure_retried(attempt, o) ==
  CASE o.kind = "text" -> Returned(o.text)
    [] o.kind = "notext" -> Returned(NO_TEXT_SENTINEL)
    [] o.kind = "badbody" -> Raised
    [] o.kind = "fail" ->
         IF attempt = max_retries THEN Returned(ERROR_SENTINEL) ELSE Retry

\* One iteration of the retry loop, main.py:49-62.
Attempt(attempt, o) ==
  CASE o.kind = "text" -> Returned(o.text)
    [] o.kind = "notext" -> Returned(NO_TEXT_SENTINEL)
    [] o.kind = "badbody" -> Raised
    [] o.kind = "fail" ->
         IF attempt = max_retries - 1 THEN Returned(ERROR_SENTINEL) ELSE Retry

\* The whole loop over the outcomes of the attempts, main.py:48-64.
RECURSIVE run_attempts(_, _)
run_attempts(attempt, outs) ==
  IF attempt >= max_retries THEN Returned(MAX_RETRIES_SENTINEL)
  ELSE LET a == Attempt(attempt, outs[attempt + 1])
       IN IF a.do = "retry" THEN run_attempts(attempt + 1, outs) ELSE a

get_response(outs) == run_attempts(0, outs)

RECURSIVE Pow2(_)
Pow2(n) == IF n = 0 THEN 1 ELSE 2 * Pow2(n - 1)

\* random.uniform(0, 1), in milliseconds, at three sample points.
Jitter == {0, 500, 1000}

\* The payloads the backend is made to answer with in the client's own runs.
Payloads == {<<"o","k">>, <<>>}
ClientOutcomes ==
  {TextOutcome(t) : t \in Payloads} \cup {NoTextOutcome, FailOutcome, BadBodyOutcome}

NoCall ==
  [pc |-> "idle", attempt |-> 0, posts |-> 0, outcomes |-> <<>>,
   delay |-> 0, slept |-> 0, result |-> Returned(<<>>)]

\* get_response is entered: main.py:32-48.
CallStart ==
  /\ call.pc = "idle"
  /\ call' = [call EXCEPT !.pc = "post"]
  /\ UNCHANGED <<now, user_data, handler, timer, nrouted, skew, clean>>

\* One requests.post and what follows it in the same iteration: main.py:49-62.
CallPost(o, jitter) ==
  /\ call.pc = "post"
  /\ LET a == Attempt(call.attempt, o)
     IN call' =
          [call EXCEPT
             !.posts = @ + 1,
             !.outcomes = Append(@, o),
             !.pc = CASE a.do = "return" -> "returned"
                      [] a.do = "raise" -> "raised"
                      [] OTHER -> "sleep",
             !.result = a,
             !.delay = IF a.do = "retry"
                       THEN Pow2(call.attempt) * base_delay * 1000 + jitter
                       ELSE 0]
  /\ UNCHANGED <<now, user_data, handler, timer, nrouted, skew, clean>>

\* asyncio.sleep(delay) is over and the for loop steps: main.py:62, 48, 64.
CallSleepDone ==
  /\ call.pc = "sleep"
  /\ call' =
       [call EXCEPT
          !.attempt = @ + 1,
          !.slept = @ + call.delay,
          !.delay = 0,
          !.pc = IF call.attempt + 1 < max_retries THEN "post" ELSE "returned",
          !.result = IF call.attempt + 1 < max_retries
                     THEN @ ELSE Returned(MAX_RETRIES_SENTINEL)]
  /\ UNCHANGED <<now, user_data, handler, timer, nrouted, skew, clean>>

-----------------------------------------------------------------------------
(* The session store: user_data and get_user_bots (main.py:22, 66-77) *)

NoTask == 0

\* A session whose id is the same text for every user.
NewSession_one_session_id(u) ==
  [waiting |-> FALSE,
   last_wait_time |-> 0,
   message_queue |-> <<>>,
   wait_task |-> NoTask,
   session_id |-> "101"]

NewSession(u) ==
  [waiting |-> FALSE,
   last_wait_time |-> 0,
   message_queue |-> <<>>,
   wait_task |-> NoTask,
   session_id |-> ToString(u)]

\* A lookup that builds the session anew each time.
get_user_bots_always_new(u) ==
  [v \in DOMAIN user_data \cup {u} |-> IF v = u THEN NewSession(u) ELSE user_data[v]]

\* The session map after get_user_bots(u).
get_user_bots(u) ==
  IF u \in DOMAIN user_data THEN user_data ELSE user_data @@ (u :> NewSession(u))

-----------------------------------------------------------------------------
(* Inputs of the router *)

\* The router never reads the text of a message; every message gets a text of
\* its own, so that order, loss and duplication show in a combined question.
MsgTexts(m) == {<<"m", ToString(m)>>}

\* Classification texts Backend-A is made to answer with.
Bot1Texts ==
  { ESCALATE_MARKER,
    CLARIFY_MARKER,
    WAIT_MARKER,
    ESCALATE_MARKER \o <<".">>,
    <<" ">> \o CLARIFY_MARKER \o <<"\n">>,
    <<"x">> \o WAIT_MARKER,
    <<"*","H","i"," ","#","\n"," ","k"," ">> }

Bot1Outs ==
  {<<TextOutcome(t)>> : t \in Bot1Texts}
    \cup {<<BadBodyOutcome>>,
          <<FailOutcome, FailOutcome, FailOutcome, FailOutcome, FailOutcome>>}

Bot2Outs ==
  {<<TextOutcome(<<"#","B">>)>>, <<TextOutcome(<<>>)>>, <<BadBodyOutcome>>}

-----------------------------------------------------------------------------
(* Tasks *)

NoResult == [do |-> "none", text |-> <<>>]

\* A handle_telegram_message task.  response1 and tosend are locals of the
\* coroutine: response1 is kept until the await that follows the routing
\* returns, tosend until the send returns.  route, ord, ctime, cancelled and
\* hit are history: the branch taken, the rank of the classification, the
\* time of a WAIT classification, the timer task that the handler's cancel()
\* was called on and where that task stood then.  sid1 and sid2 are the
\* session ids that the Backend-A and the Backend-B call were given
\* (main.py:94-96, 136-143).
NewHandler ==
  [pc |-> "new", user |-> 0, text |-> <<>>, response1 |-> NoResult,
   route |-> "none", ord |-> 0, ctime |-> 0, cancelled |-> NoTask, hit |-> "none",
   batch |-> <<>>, question |-> <<>>, tosend |-> <<>>, delivered |-> <<>>,
   fault |-> FALSE, sid1 |-> "", sid2 |-> ""]

\* The handlers that are between their first and their last await.
InFlight == {m \in Msgs : handler[m].pc \in {"bot1", "bot2", "send"}}

\* A wait_and_check task; timer[m] is the one created for message m.
NoTimer ==
  [pc |-> "none", wake |-> 0, fired |-> 0,
   batch |-> <<>>, question |-> <<>>, tosend |-> <<>>, delivered |-> <<>>,
   sid2 |-> ""]

SLEEP_SECONDS == 10
DEBOUNCE_SECONDS == 10

\* time.time(): the wall clock, read at main.py:111 and 127.  asyncio.sleep
\* runs on the event loop's monotonic clock, now.
time_time == now + skew

\* A cancel() that does nothing.
cancel_does_nothing(tm, k) == tm

\* A cancel that ends every timer task under way, whoever it belongs to.
cancel_every_timer(tm, k) ==
  [j \in DOMAIN tm |->
     IF tm[j].pc \in {"sleep", "bot2", "send"}
     THEN [tm[j] EXCEPT !.pc = "cancelled"]
     ELSE tm[j]]

\* Task.cancel() on the timer task k: CancelledError is thrown into the task
\* at the await it is suspended in (the sleep, the Backend-B call or the
\* send); nothing in wait_and_check or below catches it.  A finished task is
\* left as it is.
cancel(tm, k) ==
  IF k # NoTask /\ tm[k].pc \in {"sleep", "bot2", "send"}
  THEN [tm EXCEPT ![k].pc = "cancelled"]
  ELSE tm

\* Where the task k stands ("none" when there is no task).
task_state(k) == IF k = NoTask THEN "none" ELSE timer[k].pc

\* The queue holds the texts; src tags each with the message it came from.
Entry(m, t) == [src |-> m, text |-> t]
Texts(q) == [i \in 1..Len(q) |-> q[i].text]

\* main.py:141
combined_question(messages) == join(<<" ">>, Texts(messages))

\* A flush that leaves the queue as it is (main.py:139 missing).
after_take_keeps_queue(sess) == sess

\* main.py:138-139: what the flush takes, and what it leaves in the session.
\* A take of the head of the queue alone.
taken_messages_first_only(sess) ==
  IF sess.message_queue = <<>> THEN <<>> ELSE <<Head(sess.message_queue)>>

taken_messages(sess) == sess.message_queue
after_take(sess) == [sess EXCEPT !.message_queue = <<>>]

IsEscalate(r) == Contains(ESCALATE_MARKER, r)                  \* main.py:99
IsClarify(r) == ~IsEscalate(r) /\ strip(r) = CLARIFY_MARKER    \* main.py:104
IsWait(r) == ~IsEscalate(r) /\ ~IsClarify(r) /\ r = WAIT_MARKER \* main.py:109
IsFinal(r) == ~IsEscalate(r) /\ ~IsClarify(r) /\ ~IsWait(r)    \* main.py:116

CLARIFY_SUFFIX == <<" ">> \o CLARIFY_MARKER                    \* main.py:107

-----------------------------------------------------------------------------
(* handle_telegram_message (main.py:84-121) *)

\* A message arrives: main.py:85-96, up to the Backend-A call.
Arrive(m, u, text) ==
  /\ handler[m].pc = "new"
  /\ \A k \in 1..(m - 1) : handler[k].pc # "new"
  /\ Cardinality(InFlight) < MaxInFlight
  /\ user_data' = get_user_bots(u)
  /\ handler' = [handler EXCEPT ![m].pc = "bot1", ![m].user = u, ![m].text = text,
                                ![m].sid1 = get_user_bots(u)[u].session_id]
  /\ UNCHANGED <<now, timer, nrouted, call, skew, clean>>

\* Backend-A raises: main.py:96, 120-121.
ClassifyRaises(m, outs) ==
  /\ handler[m].pc = "bot1"
  /\ get_response(outs).do = "raise"
  /\ handler' = [handler EXCEPT ![m].pc = "done", ![m].fault = TRUE,
                                ![m].route = "raise", ![m].ord = nrouted + 1]
  /\ nrouted' = nrouted + 1
  /\ UNCHANGED <<now, user_data, timer, call, skew, clean>>

\* The immediate flush without the cancel of main.py:100-101 and 105-106.
FlushNow_without_cancel(m, r, route, queued) ==
  LET u == handler[m].user
      sess == user_data[u]
      appended == [sess EXCEPT !.message_queue = Append(@, Entry(m, queued))]
      messages == taken_messages(appended)
  IN /\ timer' = timer
     /\ user_data' = [user_data EXCEPT ![u] = after_take(appended)]
     /\ handler' = [handler EXCEPT
                      ![m].pc = "bot2", ![m].response1 = r, ![m].route = route,
                      ![m].ord = nrouted + 1,
                      ![m].cancelled = sess.wait_task,
                      ![m].hit = task_state(sess.wait_task),
                      ![m].batch = messages,
                      ![m].question = combined_question(messages),
                      ![m].sid2 = sess.session_id]
     /\ nrouted' = nrouted + 1
     /\ UNCHANGED <<now, call, skew, clean>>

\* main.py:100-103 and 105-108: cancel, append, and process_bot2_messages up
\* to its Backend-B call (main.py:133-143).
FlushNow(m, r, route, queued) ==
  LET u == handler[m].user
      sess == user_data[u]
      appended == [sess EXCEPT !.message_queue = Append(@, Entry(m, queued))]
      messages == taken_messages(appended)
  IN /\ timer' = cancel(timer, sess.wait_task)
     /\ user_data' = [user_data EXCEPT ![u] = after_take(appended)]
     /\ handler' = [handler EXCEPT
                      ![m].pc = "bot2", ![m].response1 = r, ![m].route = route,
                      ![m].ord = nrouted + 1,
                      ![m].cancelled = sess.wait_task,
                      ![m].hit = task_state(sess.wait_task),
                      ![m].batch = messages,
                      ![m].question = combined_question(messages),
                      ![m].sid2 = sess.session_id]
     /\ nrouted' = nrouted + 1
     /\ UNCHANGED <<now, call, skew, clean>>

\* main.py:99-103
RouteEscalate(m, outs) ==
  /\ handler[m].pc = "bot1"
  /\ get_response(outs).do = "return"
  /\ IsEscalate(get_response(outs).text)
  /\ FlushNow(m, get_response(outs), "escalate", handler[m].text)

\* main.py:104-108
RouteClarify(m, outs) ==
  /\ handler[m].pc = "bot1"
  /\ get_response(outs).do = "return"
  /\ IsClarify(get_response(outs).text)
  /\ FlushNow(m, get_response(outs), "clarify", handler[m].text \o CLARIFY_SUFFIX)

\* The WAIT branch without the cancel of main.py:113-114.
RouteWait_without_cancel(m, outs) ==
  /\ handler[m].pc = "bot1"
  /\ get_response(outs).do = "return"
  /\ IsWait(get_response(outs).text)
  /\ LET u == handler[m].user
         sess == user_data[u]
     IN /\ user_data' =
             [user_data EXCEPT
                ![u] = [sess EXCEPT
                          !.waiting = TRUE,
                          !.last_wait_time = time_time,
                          !.message_queue = Append(@, Entry(m, handler[m].text)),
                          !.wait_task = m]]
        /\ timer' = [timer EXCEPT
                       ![m] = [NoTimer EXCEPT !.pc = "sleep",
                                              !.wake = now + SLEEP_SECONDS]]
        /\ handler' = [handler EXCEPT
                         ![m].pc = "done", ![m].route = "wait",
                         ![m].ord = nrouted + 1, ![m].ctime = time_time,
                         ![m].cancelled = sess.wait_task,
                         ![m].hit = task_state(sess.wait_task)]
  /\ nrouted' = nrouted + 1
  /\ UNCHANGED <<now, call, skew, clean>>

\* main.py:109-115
RouteWait(m, outs) ==
  /\ handler[m].pc = "bot1"
  /\ get_response(outs).do = "return"
  /\ IsWait(get_response(outs).text)
  /\ LET u == handler[m].user
         sess == user_data[u]
     IN /\ user_data' =
             [user_data EXCEPT
                ![u] = [sess EXCEPT
                          !.waiting = TRUE,
                          !.last_wait_time = time_time,
                          !.message_queue = Append(@, Entry(m, handler[m].text)),
                          !.wait_task = m]]
        /\ timer' = [cancel(timer, sess.wait_task) EXCEPT
                       ![m] = [NoTimer EXCEPT !.pc = "sleep",
                                              !.wake = now + SLEEP_SECONDS]]
        /\ handler' = [handler EXCEPT
                         ![m].pc = "done", ![m].route = "wait",
                         ![m].ord = nrouted + 1, ![m].ctime = time_time,
                         ![m].cancelled = sess.wait_task,
                         ![m].hit = task_state(sess.wait_task)]
  /\ nrouted' = nrouted + 1
  /\ UNCHANGED <<now, call, skew, clean>>

\* main.py:116-118, up to the send.
RouteFinal(m, outs) ==
  /\ handler[m].pc = "bot1"
  /\ get_response(outs).do = "return"
  /\ IsFinal(get_response(outs).text)
  /\ handler' = [handler EXCEPT
                   ![m].pc = "send", ![m].response1 = get_response(outs),
                   ![m].route = "final", ![m].ord = nrouted + 1,
                   ![m].tosend = clean_response(get_response(outs).text)]
  /\ nrouted' = nrouted + 1
  /\ UNCHANGED <<now, user_data, timer, call, skew, clean>>

\* Backend-B answers the handler's flush: main.py:143-148, 120-121.
HandlerBot2Returns(m, outs) ==
  /\ handler[m].pc = "bot2"
  /\ LET r == get_response(outs)
     IN handler' =
          [handler EXCEPT
             ![m].pc = IF r.do = "return" /\ r.text # <<>> THEN "send" ELSE "done",
             ![m].response1 = NoResult,
             ![m].fault = (r.do = "raise"),
             ![m].tosend = IF r.do = "return" /\ r.text # <<>>
                           THEN clean_response(r.text) ELSE <<>>]
  /\ UNCHANGED <<now, user_data, timer, nrouted, call, skew, clean>>

\* context.bot.send_message returns or raises: main.py:118 or 148, 120-121.
HandlerSendReturns(m, ok) ==
  /\ handler[m].pc = "send"
  /\ handler' = [handler EXCEPT
                   ![m].pc = "done",
                   ![m].response1 = NoResult,
                   ![m].tosend = <<>>,
                   ![m].fault = ~ok,
                   ![m].delivered = IF ok THEN <<handler[m].tosend>> ELSE <<>>]
  /\ UNCHANGED <<now, user_data, timer, nrouted, call, skew, clean>>

-----------------------------------------------------------------------------
(* wait_and_check (main.py:123-130) and its flush *)

\* asyncio.sleep(10) is over: main.py:126-130, and process_bot2_messages up
\* to its Backend-B call (main.py:133-143).
\* A wake that fires without looking at the time of the last WAIT.
TimerWakes_without_window_test(m) ==
  /\ timer[m].pc = "sleep"
  /\ now >= timer[m].wake
  /\ LET u == handler[m].user
         sess == user_data[u]
         idle == [sess EXCEPT !.waiting = FALSE]
     IN /\ user_data' = [user_data EXCEPT ![u] = after_take(idle)]
        /\ timer' = [timer EXCEPT
                       ![m].pc = "bot2", ![m].fired = time_time,
                       ![m].sid2 = sess.session_id,
                       ![m].batch = taken_messages(idle),
                       ![m].question = combined_question(taken_messages(idle))]
  /\ UNCHANGED <<now, handler, nrouted, call, skew, clean>>

\* A wake that fires only when more than the window has passed.
TimerWakes_window_must_be_exceeded(m) ==
  /\ timer[m].pc = "sleep"
  /\ now >= timer[m].wake
  /\ LET u == handler[m].user
         sess == user_data[u]
         idle == [sess EXCEPT !.waiting = FALSE]
     IN IF time_time - sess.last_wait_time > DEBOUNCE_SECONDS
        THEN /\ user_data' = [user_data EXCEPT ![u] = after_take(idle)]
             /\ timer' = [timer EXCEPT
                            ![m].pc = "bot2", ![m].fired = time_time,
                            ![m].sid2 = sess.session_id,
                            ![m].batch = taken_messages(idle),
                            ![m].question = combined_question(taken_messages(idle))]
        ELSE /\ timer' = [timer EXCEPT ![m].wake = now + SLEEP_SECONDS]
             /\ UNCHANGED user_data
  /\ UNCHANGED <<now, handler, nrouted, call, skew, clean>>

TimerWakes(m) ==
  /\ timer[m].pc = "sleep"
  /\ now >= timer[m].wake
  /\ LET u == handler[m].user
         sess == user_data[u]
         idle == [sess EXCEPT !.waiting = FALSE]
     IN IF time_time - sess.last_wait_time >= DEBOUNCE_SECONDS
        THEN /\ user_data' = [user_data EXCEPT ![u] = after_take(idle)]
             /\ timer' = [timer EXCEPT
                            ![m].pc = "bot2", ![m].fired = time_time,
                            ![m].sid2 = sess.session_id,
                            ![m].batch = taken_messages(idle),
                            ![m].question = combined_question(taken_messages(idle))]
        ELSE /\ timer' = [timer EXCEPT ![m].wake = now + SLEEP_SECONDS]
             /\ UNCHANGED user_data
  /\ UNCHANGED <<now, handler, nrouted, call, skew, clean>>

\* Backend-B answers the timer's flush: main.py:143-148.  Nothing catches an
\* exception here: the task ends with it.
TimerBot2Returns(m, outs) ==
  /\ timer[m].pc = "bot2"
  /\ LET r == get_response(outs)
     IN timer' =
          [timer EXCEPT
             ![m].pc = CASE r.do = "raise" -> "failed"
                         [] r.text # <<>> -> "send"
                         [] OTHER -> "done",
             ![m].tosend = IF r.do = "return" /\ r.text # <<>>
                           THEN clean_response(r.text) ELSE <<>>]
  /\ UNCHANGED <<now, user_data, handler, nrouted, call, skew, clean>>

\* context.bot.send_message returns or raises in the timer task: main.py:148.
TimerSendReturns(m, ok) ==
  /\ timer[m].pc = "send"
  /\ timer' = [timer EXCEPT
                 ![m].pc = IF ok THEN "done" ELSE "failed",
                     ![m].tosend = <<>>,
                 ![m].delivered = IF ok THEN <<timer[m].tosend>> ELSE <<>>]
  /\ UNCHANGED <<now, user_data, handler, nrouted, call, skew, clean>>

\* Time passes.
Tick ==
  /\ now + TickStep <= MaxTime
  /\ now' = now + TickStep
  /\ UNCHANGED <<user_data, handler, timer, nrouted, call, skew, clean>>

-----------------------------------------------------------------------------
(* Specifications *)

Init ==
  /\ now = 0
  /\ user_data = <<>>
  /\ handler = [m \in Msgs |-> NewHandler]
  /\ timer = [m \in Msgs |-> NoTimer]
  /\ nrouted = 0
  /\ call = NoCall
  /\ skew = 0
  /\ clean = NoClean

Next ==
  \/ \E m \in Msgs, u \in Users : \E text \in MsgTexts(m) : Arrive(m, u, text)
  \/ \E m \in Msgs, outs \in Bot1Outs : ClassifyRaises(m, outs)
  \/ \E m \in Msgs, outs \in Bot1Outs : RouteEscalate(m, outs)
  \/ \E m \in Msgs, outs \in Bot1Outs : RouteClarify(m, outs)
  \/ \E m \in Msgs, outs \in Bot1Outs : RouteWait(m, outs)
  \/ \E m \in Msgs, outs \in Bot1Outs : RouteFinal(m, outs)
  \/ \E m \in Msgs, outs \in Bot2Outs : HandlerBot2Returns(m, outs)
  \/ \E m \in Msgs, ok \in BOOLEAN : HandlerSendReturns(m, ok)
  \/ \E m \in Msgs : TimerWakes(m)
  \/ \E m \in Msgs, outs \in Bot2Outs : TimerBot2Returns(m, outs)
  \/ \E m \in Msgs, ok \in BOOLEAN : TimerSendReturns(m, ok)
  \/ Tick

Spec == Init /\ [][Next]_vars

\* The backend client on its own: one call, attempt by attempt.
ClientNext ==
  \/ CallStart
  \/ \E o \in ClientOutcomes, jitter \in Jitter : CallPost(o, jitter)
  \/ CallSleepDone

ClientSpec == Init /\ [][ClientNext]_vars

\* The wall clock is set back by one step of the model; the clock of the
\* event loop, which ends the sleeps, is not.  The wall clock stays at or
\* after the time the program started at.
ClockSetBack ==
  /\ skew > -(MaxSetBack * TickStep)
  /\ time_time - TickStep >= 0
  /\ skew' = skew - TickStep
  /\ UNCHANGED <<now, user_data, handler, timer, nrouted, call, clean>>

\* The router on a machine whose wall clock can be set back.
ClockNext == Next \/ ClockSetBack

ClockSpec == Init /\ [][ClockNext]_vars

\* The router with a clock that goes on and timer tasks that the event loop
\* runs once their sleep is over.
LiveSpec ==
  /\ Init
  /\ [][Next]_vars
  /\ WF_vars(Tick)
  /\ \A m \in Msgs : WF_vars(TimerWakes(m))

\* clean_response on its own: a text over the two marks, space, newline and
\* a letter is cleaned, and the result is cleaned again.
CleanAlphabet == {"#", "*", " ", "\n", "a"}

CleanTexts == UNION {[1..n -> CleanAlphabet] : n \in 0..MaxCleanLen}

CleanInit ==
  /\ now = 0
  /\ user_data = <<>>
  /\ handler = [m \in Msgs |-> NewHandler]
  /\ timer = [m \in Msgs |-> NoTimer]
  /\ nrouted = 0
  /\ call = NoCall
  /\ skew = 0
  /\ clean \in {[NoClean EXCEPT !.text = t] : t \in CleanTexts}

CleanOnce ==
  /\ clean.pc = "idle"
  /\ clean' = [clean EXCEPT !.pc = "once", !.once = clean_response(clean.text)]
  /\ UNCHANGED <<now, user_data, handler, timer, nrouted, call, skew>>

CleanTwice ==
  /\ clean.pc = "once"
  /\ clean' = [clean EXCEPT !.pc = "twice", !.twice = clean_response(clean.once)]
  /\ UNCHANGED <<now, user_data, handler, timer, nrouted, call, skew>>

CleanNext == CleanOnce \/ CleanTwice

CleanSpec == CleanInit /\ [][CleanNext]_vars

\* Two users writing to the bot at once.  One reply of Backend A per branch
\* of the router, one that the client cannot read, and one reply of
\* Backend B.
TwoUsers == {101, 102}

TwoUserBot1Outs ==
  {<<TextOutcome(ESCALATE_MARKER)>>, <<TextOutcome(CLARIFY_MARKER)>>,
   <<TextOutcome(WAIT_MARKER)>>, <<TextOutcome(<<"o", "k">>)>>,
   <<BadBodyOutcome>>}

TwoUserBot2Outs == {<<TextOutcome(<<"#", "B">>)>>}

TwoUserNext ==
  \/ \E m \in Msgs, u \in TwoUsers : \E text \in MsgTexts(m) : Arrive(m, u, text)
  \/ \E m \in Msgs, outs \in TwoUserBot1Outs : ClassifyRaises(m, outs)
  \/ \E m \in Msgs, outs \in TwoUserBot1Outs : RouteEscalate(m, outs)
  \/ \E m \in Msgs, outs \in TwoUserBot1Outs : RouteClarify(m, outs)
  \/ \E m \in Msgs, outs \in TwoUserBot1Outs : RouteWait(m, outs)
  \/ \E m \in Msgs, outs \in TwoUserBot1Outs : RouteFinal(m, outs)
  \/ \E m \in Msgs, outs \in TwoUserBot2Outs : HandlerBot2Returns(m, outs)
  \/ \E m \in Msgs, ok \in BOOLEAN : HandlerSendReturns(m, ok)
  \/ \E m \in Msgs : TimerWakes(m)
  \/ \E m \in Msgs, outs \in TwoUserBot2Outs : TimerBot2Returns(m, outs)
  \/ \E m \in Msgs, ok \in BOOLEAN : TimerSendReturns(m, ok)
  \/ Tick

TwoUserSpec == Init /\ [][TwoUserNext]_vars

-----------------------------------------------------------------------------
(* Vocabulary of the properties *)

Sessions == DOMAIN user_data

Enqueued(m) == handler[m].route \in {"wait", "escalate", "clarify"}

IdSet(q) == {q[i].src : i \in 1..Len(q)}

\* The text message m puts on the queue.
QueuedText(m) ==
  IF handler[m].route = "clarify"
  THEN handler[m].text \o <<" ","U","t","o","q","n","e","n","i","e">>
  ELSE handler[m].text

\* The texts joined by single spaces, built from the left.
RECURSIVE SpaceJoined(_)
SpaceJoined(ts) ==
  IF Len(ts) = 0 THEN <<>>
  ELSE IF Len(ts) = 1 THEN ts[1]
  ELSE SpaceJoined(SubSeq(ts, 1, Len(ts) - 1)) \o <<" ">> \o ts[Len(ts)]

\* A batch holds the messages in the order they were classified, each with
\* the text it put on the queue, and its question is their texts joined by
\* single spaces.
WellFormedFlush(batch, question) ==
  /\ \A i \in 1..Len(batch) : batch[i].text = QueuedText(batch[i].src)
  /\ \A i, j \in 1..Len(batch) :
       i < j => handler[batch[i].src].ord < handler[batch[j].src].ord
  /\ question = SpaceJoined([i \in 1..Len(batch) |-> batch[i].text])

\* The flushes: one by the handler of an ESCALATE or CLARIFY message, one by
\* a timer that fired.
Flushes == {<<"handler", m>> : m \in Msgs} \cup {<<"timer", m>> : m \in Msgs}
BatchOf(f) == IF f[1] = "handler" THEN handler[f[2]].batch ELSE timer[f[2]].batch

\* The messages of the same user that were put on the queue before m.
Before(m) ==
  {j \in Msgs : /\ Enqueued(j)
                /\ handler[j].user = handler[m].user
                /\ handler[j].ord < handler[m].ord}

Prev(m) == CHOOSE j \in Before(m) : \A i \in Before(m) : handler[i].ord <= handler[j].ord

Fired(k) == timer[k].fired > 0

Armed(k) == timer[k].pc = "sleep"

Live(k) == timer[k].pc \in {"sleep", "bot2", "send"}

-----------------------------------------------------------------------------
(* C1 *)

IsMarker(t) == t \in {ESCALATE_MARKER, CLARIFY_MARKER, WAIT_MARKER}

\* The classification texts that the code treats as the final answer.
NoMarkerIn(t) ==
  /\ ~Contains(<<"S","p","e","c","z","a","p","r","o","s">>, t)
  /\ strip(t) # <<"U","t","o","q","n","e","n","i","e">>
  /\ t # <<"O","j","i","d","a","n","i","e">>

\* The handler of m has its classification and has routed it.
Routed(m) == handler[m].pc = "bot1" /\ handler'[m].pc # "bot1"

-----------------------------------------------------------------------------
(* C2 *)

\* The WAIT messages that lead up to k with less than the window between
\* one classification and the next.
RECURSIVE Run(_)
Run(k) ==
  IF /\ Before(k) # {}
     /\ handler[Prev(k)].route = "wait"
     /\ handler[k].ctime - handler[Prev(k)].ctime < 10
  THEN Run(Prev(k)) \cup {k}
  ELSE {k}

RunHead(k) == CHOOSE j \in Run(k) : \A i \in Run(k) : handler[j].ord <= handler[i].ord

\* The queue was empty when m was put on it: whatever was queued before has
\* gone out in another flush.
FromIdle(m) ==
  \/ Before(m) = {}
  \/ \E f \in Flushes : Prev(m) \in IdSet(BatchOf(f)) /\ m \notin IdSet(BatchOf(f))

\* C2: WAIT classifications of one user that follow each other by less than
\* the 10-second window, starting from an empty queue, go out in exactly one
\* flush, the one of the timer of the last of them: its question is their
\* raw texts in order joined by single spaces, no other flush holds any of
\* them, and the queue is empty right after the flush takes it.
C2_WaitRunFlushedOnce ==
  /\ [](\A k \in Msgs :
          Fired(k) =>
            /\ Run(k) \subseteq IdSet(timer[k].batch)
            /\ (FromIdle(RunHead(k)) => IdSet(timer[k].batch) = Run(k))
            /\ Len(timer[k].batch) = Cardinality(IdSet(timer[k].batch))
            /\ WellFormedFlush(timer[k].batch, timer[k].question)
            /\ \A i \in 1..Len(timer[k].batch) :
                 timer[k].batch[i].text = handler[timer[k].batch[i].src].text
            /\ \A f \in Flushes \ {<<"timer", k>>} :
                 IdSet(BatchOf(f)) \cap Run(k) = {})
  /\ [][\A k \in Msgs :
          (Armed(k) /\ timer'[k].pc = "bot2")
            => user_data'[handler[k].user].message_queue = <<>>]_vars

\* Two WAIT classifications 5 seconds apart have gone out in one flush.
C2_Witness ==
  \E k \in Msgs :
    /\ Fired(k)
    /\ Cardinality(Run(k)) = 2
    /\ Len(timer[k].batch) = 2
    /\ timer[k].question = <<"m","1"," ","m","2">>
    /\ handler[k].ctime - handler[Prev(k)].ctime = 5

-----------------------------------------------------------------------------
(* C3 *)

\* The WAIT messages of m's user that were queued when m was classified:
\* those before m that no other flush holds.
PendingBefore(m) ==
  {j \in Before(m) :
     \A f \in Flushes \ {<<"handler", m>>} : j \notin IdSet(BatchOf(f))}

\* C3: an ESCALATE or CLARIFY classification that finds the timer of its
\* session sleeping cancels it, that timer never flushes, and the handler's
\* own flush holds every text queued before and the current one (with
\* " Utoqnenie" appended for CLARIFY), in order, joined by single spaces.
C3_EscalateCancelsAndFlushesAll ==
  \A m \in Msgs :
    (handler[m].route \in {"escalate", "clarify"} /\ handler[m].hit = "sleep")
      => /\ timer[handler[m].cancelled].pc = "cancelled"
         /\ ~Fired(handler[m].cancelled)
         /\ timer[handler[m].cancelled].batch = <<>>
         /\ IdSet(handler[m].batch) = PendingBefore(m) \cup {m}
         /\ Len(handler[m].batch) = Cardinality(PendingBefore(m)) + 1
         /\ PendingBefore(m) # {}
         /\ handler[m].batch[Len(handler[m].batch)].src = m
         /\ WellFormedFlush(handler[m].batch, handler[m].question)

\* A CLARIFY classification has cancelled a sleeping timer and flushed the
\* queued text with its own.
C3_Witness ==
  \E m \in Msgs :
    /\ handler[m].route = "clarify" /\ handler[m].hit = "sleep"
    /\ Len(handler[m].batch) = 2
    /\ handler[m].question =
         <<"m","1"," ","m","2"," ","U","t","o","q","n","e","n","i","e">>
    /\ timer[handler[m].cancelled].pc = "cancelled"

-----------------------------------------------------------------------------
(* C4 *)

LiveTimers(u) == {k \in Msgs : handler[k].user = u /\ Live(k)}

\* C4: a session has at most one timer task that is neither cancelled nor
\* finished, and it is the one the session's wait_task names; a new timer is
\* armed only with the previous one cancelled.
C4_AtMostOneLiveTimer ==
  \A u \in Sessions :
    /\ Cardinality(LiveTimers(u)) <= 1
    /\ \A k \in LiveTimers(u) : user_data[u].wait_task = k
    /\ \A k \in Msgs :
         (handler[k].user = u /\ handler[k].route = "wait"
            /\ handler[k].cancelled # NoTask)
           => ~Live(handler[k].cancelled)

\* A timer is armed after the one before it was cancelled in its sleep.
C4_Witness ==
  \E k \in Msgs :
    /\ Armed(k)
    /\ handler[k].hit = "sleep"
    /\ timer[handler[k].cancelled].pc = "cancelled"

-----------------------------------------------------------------------------
(* C5 *)

InQueue(m) == m \in IdSet(user_data[handler[m].user].message_queue)

\* C5 as stated, in the form a finite run refutes: every text put on the
\* queue is still queued or is held by a flush that has not been aborted.
C5_NoQueuedMessageLost ==
  \A m \in Msgs :
    Enqueued(m) =>
      \/ InQueue(m)
      \/ \E k \in Msgs : m \in IdSet(handler[k].batch)
      \/ \E k \in Msgs : m \in IdSet(timer[k].batch) /\ timer[k].pc # "cancelled"

-----------------------------------------------------------------------------
(* C6 *)

\* C6: a text put on the queue is in at most one flush, once, and not in a
\* flush and on the queue at the same time.
C6_NoQueuedMessageDuplicated ==
  /\ \A f, g \in Flushes : f # g => IdSet(BatchOf(f)) \cap IdSet(BatchOf(g)) = {}
  /\ \A f \in Flushes : Len(BatchOf(f)) = Cardinality(IdSet(BatchOf(f)))
  /\ \A u \in Sessions :
       /\ Len(user_data[u].message_queue) = Cardinality(IdSet(user_data[u].message_queue))
       /\ \A f \in Flushes : IdSet(BatchOf(f)) \cap IdSet(user_data[u].message_queue) = {}

\* Two flushes of one session, a timer's and a handler's, have each taken a
\* message.
C6_Witness ==
  \E k \in Msgs, m \in Msgs :
    /\ timer[k].batch # <<>>
    /\ handler[m].batch # <<>>
    /\ handler[k].user = handler[m].user

-----------------------------------------------------------------------------
(* C7 *)

AllFail(outs, n) == \A i \in 1..n : outs[i].kind = "fail"

\* C7: a call makes at most 5 attempts; k < 5 failures followed by a success
\* end the call after k + 1 attempts with the text of the success; 5
\* failures end it with the failure sentinel, and no 6th attempt is made.
C7_AtMostFiveAttempts ==
  /\ call.posts <= 5
  /\ call.posts = Len(call.outcomes)
  /\ \A i \in 1..Len(call.outcomes) :
       (call.outcomes[i].kind = "text" /\ AllFail(call.outcomes, i - 1))
         => /\ i = Len(call.outcomes)
            /\ call.pc = "returned"
            /\ call.result = [do |-> "return", text |-> call.outcomes[i].text]
  /\ (Len(call.outcomes) = 5 /\ AllFail(call.outcomes, 5))
       => /\ call.pc = "returned"
          /\ call.result = [do |-> "return", text |-> ERROR_SENTINEL]
  /\ (call.pc \in {"post", "sleep"}) => (call.posts < 5 /\ AllFail(call.outcomes, call.posts))

\* Four failures and then a success: five attempts, the success's text.
C7_Witness ==
  /\ call.pc = "returned"
  /\ call.posts = 5
  /\ AllFail(call.outcomes, 4)
  /\ call.outcomes[5] = TextOutcome(<<"o","k">>)
  /\ call.result.text = <<"o","k">>

-----------------------------------------------------------------------------
(* C8 *)

\* C8 as stated: whatever the attempts come to, the call returns a text and
\* never raises.
C8_CallNeverRaises == call.pc # "raised"

-----------------------------------------------------------------------------
(* C9 *)

\* C9 as stated: a message whose classification failed, by an exception or
\* by the retries running out, is neither answered nor queued.
C9_FailedClassificationDropped ==
  \A m \in Msgs :
    /\ handler[m].route = "raise"
         => handler[m].delivered = <<>> /\ handler[m].batch = <<>> /\ ~InQueue(m)
    /\ handler[m].response1 = Returned(ERROR_SENTINEL)
         => handler[m].pc # "send" /\ ~InQueue(m)
    /\ handler[m].delivered # <<ERROR_SENTINEL>>

-----------------------------------------------------------------------------
(* C10 *)

\* C10 as stated: waiting is true exactly when a timer of the session is
\* armed.
C10_WaitingIffTimerArmed ==
  \A u \in Sessions :
    user_data[u].waiting <=> (\E k \in Msgs : handler[k].user = u /\ Armed(k))

-----------------------------------------------------------------------------
(* The session store *)

\* The step in which the handler of message m starts and looks its user up.
Arrives(m) == handler[m].pc = "new" /\ handler'[m].pc # "new"

\* C11: each user has exactly one session.  The sessions are those of the
\* users who have written.  The first message of a user adds a fresh session
\* for that user; a later message of the user leaves the whole store as it
\* is, queue, waiting flag, last_wait_time and timer handle included; and no
\* step takes a session out of the store.
C11_OneSessionPerUser ==
  /\ [](Sessions = {handler[m].user : m \in {k \in Msgs : handler[k].pc # "new"}})
  /\ [][ /\ Sessions \subseteq DOMAIN user_data'
         /\ (\A m \in Msgs : ~Arrives(m)) => DOMAIN user_data' = Sessions
         /\ \A m \in Msgs :
              Arrives(m) =>
                LET u == handler'[m].user
                IN IF u \in Sessions
                   THEN user_data' = user_data
                   ELSE /\ DOMAIN user_data' = Sessions \cup {u}
                        /\ \A v \in Sessions : user_data'[v] = user_data[v]
                        /\ user_data'[u] = [waiting |-> FALSE,
                                            last_wait_time |-> 0,
                                            message_queue |-> <<>>,
                                            wait_task |-> NoTask,
                                            session_id |-> ToString(u)] ]_vars

\* The second message of a user has just been looked up while the user's
\* session holds a queued message, the waiting flag, a signal time and a
\* timer handle.
C11_Witness ==
  /\ handler[1].pc # "new"
  /\ handler[2].pc = "bot1"
  /\ handler[2].user = handler[1].user
  /\ LET sess == user_data[handler[2].user]
     IN /\ sess.message_queue = <<Entry(1, handler[1].text)>>
        /\ sess.waiting
        /\ sess.last_wait_time > 0
        /\ sess.wait_task = 1

\* str(user_id) of the two users, written out.
IdText(u) == IF u = 101 THEN "101" ELSE "102"

\* C12: the session id of a user is the one given when the session was
\* made, str(user_id), and no step changes it; the Backend-A call of every
\* handler of the user, the Backend-B call of every handler that flushed and
\* the Backend-B call of every timer that fired carry that id.
C12_SessionIdFixed ==
  /\ [](\A u \in Sessions : user_data[u].session_id = IdText(u))
  /\ [](\A m \in Msgs :
          LET id == IdText(handler[m].user)
          IN /\ handler[m].pc # "new" => handler[m].sid1 = id
             /\ handler[m].route \in {"escalate", "clarify"} => handler[m].sid2 = id
             /\ Fired(m) => timer[m].sid2 = id)
  /\ [][\A u \in Sessions : user_data'[u].session_id = user_data[u].session_id]_vars

\* User 102 has had a timer fire and call Backend-B, and a later message of
\* the user has been classified ESCALATE and has called Backend-B from its
\* handler.
C12_Witness ==
  /\ handler[1].user = 102
  /\ handler[2].user = 102
  /\ Fired(1)
  /\ timer[1].sid2 = "102"
  /\ handler[2].route = "escalate"
  /\ handler[2].sid1 = "102"
  /\ handler[2].sid2 = "102"

-----------------------------------------------------------------------------
(* Faults *)

\* C13 as stated: no fault leaves the task it was raised in.  A handler has
\* the try/except of main.py:88-121 around all it does; a timer task that
\* ends on an exception nobody caught stands at "failed".
C13_NoFaultLeavesItsTask == \A k \in Msgs : timer[k].pc # "failed"

-----------------------------------------------------------------------------
(* clean_response *)

\* C14: cleaning a cleaned text changes nothing: for every text t over
\* '#', '*', space, newline and a letter,
\* clean_response(clean_response(t)) = clean_response(t).
C14_CleanIsIdempotent == clean.pc = "twice" => clean.twice = clean.once

\* A text with a mark and with stray spaces at the end of a line and at the
\* start of the next has been cleaned twice.
C14_Witness ==
  /\ clean.pc = "twice"
  /\ clean.text = <<"a", " ", "\n", "#", "a">>
  /\ clean.once = <<"a", "\n", "a">>
  /\ clean.twice = <<"a", "\n", "a">>

-----------------------------------------------------------------------------
(* The flush and the messages that arrive during its call *)

QuestionOf(f) == IF f[1] = "handler" THEN handler[f[2]].question ELSE timer[f[2]].question

\* The flush f has issued its Backend-B call and the call has not returned.
Calling(f) == IF f[1] = "handler" THEN handler[f[2]].pc = "bot2" ELSE timer[f[2]].pc = "bot2"

UserOf(f) == handler[f[2]].user

\* C15: the step that issues the Backend-B call of a flush is the step that
\* takes the queue: the batch is the whole queue of that moment (with the
\* handler's own message at its end, for a handler), the question is its
\* texts joined by spaces, and the queue is empty after the step.  A message
\* that is put on the queue while the call is in flight leaves the batch
\* and the question of that call as they are, is not in that batch, and is
\* on the queue or in the batch of its own flush after the step.  Every
\* message put on the queue is on the queue or in the batch of a flush.
C15_TakeIsAtomic ==
  /\ [][\A f \in Flushes :
          (~Calling(f) /\ Calling(f)') =>
            LET q == user_data[UserOf(f)].message_queue
                whole == IF f[1] = "handler"
                         THEN Append(q, Entry(f[2], QueuedText(f[2])'))
                         ELSE q
            IN /\ BatchOf(f)' = whole
               /\ QuestionOf(f)' = SpaceJoined([i \in 1..Len(whole) |-> whole[i].text])
               /\ user_data'[UserOf(f)].message_queue = <<>>]_vars
  /\ [][\A f \in Flushes, m \in Msgs :
          (Calling(f) /\ ~Enqueued(m) /\ Enqueued(m)' /\ handler[m].user = UserOf(f)) =>
            /\ BatchOf(f)' = BatchOf(f)
            /\ QuestionOf(f)' = QuestionOf(f)
            /\ m \notin IdSet(BatchOf(f)')
            /\ \/ m \in IdSet(user_data'[UserOf(f)].message_queue)
               \/ m \in IdSet(handler'[m].batch)]_vars
  /\ [](\A m \in Msgs :
          Enqueued(m) =>
            \/ m \in IdSet(user_data[handler[m].user].message_queue)
            \/ \E f \in Flushes : m \in IdSet(BatchOf(f)))

\* The handler of message 1 has taken the queue and is inside its Backend-B
\* call with the question "m1"; message 2 has been classified WAIT meanwhile
\* and is alone on the queue.
C15_Witness ==
  /\ handler[1].pc = "bot2"
  /\ handler[1].question = <<"m", "1">>
  /\ handler[2].route = "wait"
  /\ handler[2].ord > handler[1].ord
  /\ user_data[101].message_queue = <<Entry(2, <<"m", "2">>)>>

-----------------------------------------------------------------------------
(* The debounce timer *)

\* The last time the clock of the model reaches.
LastTick == MaxTime - (MaxTime % TickStep)

\* C16: a timer that a WAIT classification has armed, and whose sleep ends
\* within the time of the model, fires unless a later WAIT, ESCALATE or
\* CLARIFY message of the user cancels it; and the step in which a sleeping
\* timer fires sets waiting to false, takes the whole queue into its batch,
\* leaves the queue empty and issues the Backend-B call.
C16_ArmedTimerFires ==
  /\ \A k \in Msgs :
       (Armed(k) /\ timer[k].wake <= LastTick) ~> (Fired(k) \/ timer[k].pc = "cancelled")
  /\ [][\A k \in Msgs :
          (Armed(k) /\ Fired(k)') =>
            LET sess == user_data[handler[k].user]
            IN /\ ~user_data'[handler[k].user].waiting
               /\ user_data'[handler[k].user].message_queue = <<>>
               /\ sess.message_queue # <<>>
               /\ timer'[k].batch = sess.message_queue
               /\ timer'[k].pc = "bot2"]_vars

\* The timer armed by the WAIT classification of message 1 has fired on its
\* own, and the session is idle: waiting is false and the queue is empty.
C16_Witness ==
  /\ handler[1].route = "wait"
  /\ Fired(1)
  /\ timer[1].batch = <<Entry(1, <<"m", "1">>)>>
  /\ ~user_data[101].waiting
  /\ user_data[101].message_queue = <<>>
  /\ handler[2].pc = "new"

\* The WAIT classification of the user of k that came last.
LastWait(k) ==
  CHOOSE j \in Msgs :
    /\ handler[j].route = "wait"
    /\ handler[j].user = handler[k].user
    /\ \A i \in Msgs :
         (handler[i].route = "wait" /\ handler[i].user = handler[k].user)
           => handler[i].ord <= handler[j].ord

\* The timer task of k acts: it wakes from its sleep.
Wakes(k) == Armed(k) /\ timer'[k] # timer[k] /\ timer'[k].pc # "cancelled"

\* C17: a timer never flushes early.  last_wait_time is the time.time() of
\* the user's most recent WAIT classification; a timer that wakes and takes
\* the queue does so 10 seconds of time.time() or more after it; a timer
\* that wakes earlier than that takes nothing, changes no session and
\* sleeps again.
C17_NoEarlyFlush ==
  /\ [](\A k \in Msgs :
          Armed(k) => user_data[handler[k].user].last_wait_time = handler[LastWait(k)].ctime)
  /\ [][\A k \in Msgs :
          Wakes(k) =>
            IF time_time - handler[LastWait(k)].ctime >= 10
            THEN Fired(k)' /\ timer'[k].fired - handler[LastWait(k)].ctime >= 10
            ELSE /\ ~Fired(k)'
                 /\ Armed(k)'
                 /\ timer'[k].batch = <<>>
                 /\ user_data' = user_data]_vars

\* Message 1 was classified WAIT at time 0 and the wall clock was set back
\* by 5 seconds during the sleep: the timer woke when time.time() was 5,
\* slept again and fired when time.time() was 15.
C17_Witness ==
  /\ handler[1].route = "wait"
  /\ handler[1].ctime = 0
  /\ skew = -5
  /\ timer[1].wake = 20
  /\ Fired(1)
  /\ timer[1].fired = 15
  /\ timer[1].batch = <<Entry(1, <<"m", "1">>)>>

-----------------------------------------------------------------------------
(* Cancellation *)

\* C18 as stated: a cancel() called by a handler finds the timer task it is
\* called on asleep (or already over), never inside its Backend-B call or
\* the delivery of its reply.
C18_CancelOnlyHitsSleepingTimer ==
  \A m \in Msgs : handler[m].hit \notin {"bot2", "send"}

-----------------------------------------------------------------------------
(* The batch of a flush *)

\* C19: no flush takes an empty queue.  The batch and the question of every
\* handler that flushed and of every timer that fired hold at least one
\* message, and while a timer sleeps the queue of its user is not empty.
C19_NoEmptyBatch ==
  /\ \A m \in Msgs :
       handler[m].route \in {"escalate", "clarify"} =>
         Len(handler[m].batch) >= 1 /\ Len(handler[m].question) >= 1
  /\ \A k \in Msgs :
       Fired(k) => Len(timer[k].batch) >= 1 /\ Len(timer[k].question) >= 1
  /\ \A k \in Msgs :
       Armed(k) => Len(user_data[handler[k].user].message_queue) >= 1

\* The timer of message 1 has fired and taken message 1, and the handler of
\* message 2, classified CLARIFY after that, has flushed message 2.
C19_Witness ==
  /\ Fired(1)
  /\ IdSet(timer[1].batch) = {1}
  /\ handler[2].route = "clarify"
  /\ IdSet(handler[2].batch) = {2}

-----------------------------------------------------------------------------
(* Isolation of the sessions *)

\* The users a step touches: those whose session it makes or changes and
\* those with a handler or a timer task whose record it changes.
Touched ==
  {v \in DOMAIN user_data' : v \notin Sessions \/ user_data'[v] # user_data[v]}
    \cup {handler'[m].user : m \in {k \in Msgs : handler'[k] # handler[k] \/ timer'[k] # timer[k]}}

\* C20: the sessions are isolated.  A step touches the session and the
\* tasks of one user at most, so the queue, waiting flag, last_wait_time and
\* timer handle of every other user, and the timer tasks of every other
\* user, stay as they are.  A queue holds messages of its own user only,
\* and the batch of a flush holds messages of the flush's user only, each
\* with the text that user sent, the question being these texts joined.
C20_SessionsIsolated ==
  /\ [][Cardinality(Touched) <= 1]_vars
  /\ [](\A u \in Sessions :
          \A i \in 1..Len(user_data[u].message_queue) :
            handler[user_data[u].message_queue[i].src].user = u)
  /\ [](\A f \in Flushes :
          /\ \A i \in 1..Len(BatchOf(f)) :
               /\ handler[BatchOf(f)[i].src].user = UserOf(f)
               /\ BatchOf(f)[i].text = QueuedText(BatchOf(f)[i].src)
          /\ QuestionOf(f) = SpaceJoined([i \in 1..Len(BatchOf(f)) |-> BatchOf(f)[i].text]))

\* User 101 waits with message 1 on the queue and a sleeping timer, while
\* message 2 of user 102 has been classified ESCALATE and flushed on its
\* own.
C20_Witness ==
  /\ handler[1].user = 101
  /\ handler[2].user = 102
  /\ Armed(1)
  /\ user_data[101].waiting
  /\ user_data[101].wait_task = 1
  /\ user_data[101].message_queue = <<Entry(1, <<"m", "1">>)>>
  /\ handler[2].route = "escalate"
  /\ handler[2].question = <<"m", "2">>
  /\ user_data[102].wait_task = NoTask

=============================================================================
